---- MODULE Spec2Model ----
(***************************************************************************)
(* Model of the AP-server transmitter: the fragment transmission scheduler *)
(* (src/src/transmitter/transmission_handler.rs) and the routing gateway   *)
(* (src/src/transmitter/gateway.rs).                                       *)
(*                                                                         *)
(* Indices (window_start, fragment indices, hop_index) are zero-based as   *)
(* in the source; TLA+ sequences are one-based, so element i of a Rust     *)
(* slice s is s[i + 1] here.                                               *)
(***************************************************************************)
EXTENDS Integers, Sequences, FiniteSets, TLC

(* ------------------------------ bounds -------------------------------- *)
\* longest fragment sequence handed to a TransmissionHandler
MaxPackets == 3
\* number of commands the environment puts on the command channel
MaxCommands == 4
\* largest fragment index named by a Resend command
MaxResendIndex == 2
\* number of Gateway::forward calls made by the gateway's callers
MaxCalls == 2
\* capacity of the (bounded) crossbeam channels handed to the Gateway
ChanCap == 1
\* number of add_neighbor / remove_neighbor calls
MaxTopologyOps == 1

VARIABLES
    \* TransmissionHandler
    pc,                 \* position of run(): "admit" (loop head), "select", "done"
    packets,            \* the `packets` slice
    window_size,
    window_start,
    fragment_channels,  \* HashMap<u64, UnboundedSender<Command>>: key -> tokio channel
    command_channel,    \* queue of the UnboundedReceiver<Command>
    command_closed,     \* every sender of the command channel has been dropped
    command,            \* the `command` bound by the select! at line 66
    sent,               \* commands sent so far by the environment
    \* per-fragment tokio channels and the futures returned by spawn_task
    chans,              \* tokio channel -> [rx_open, tx_open, queue]
    tasks,              \* tokio channel -> [id, packet, state, forwards]
    \* Gateway
    neighbors,          \* HashMap<NodeId, Sender<Packet>>: node -> crossbeam channel
    channels,           \* crossbeam channel -> [queue, connected]
    arg,                \* the packet handed to the last forward call
    result,             \* what the last forward call produced
    try_sent,           \* outcome of the try_send made by the last forward call
    calls,              \* forward calls made so far
    topology_ops,       \* add_neighbor / remove_neighbor calls made so far
    nack_arg,           \* nack_type of the last send_nack_packet_to_receiver call
    topology_arg        \* the last add_neighbor / remove_neighbor call: [op, node_id]

schedVars == <<pc, packets, window_size, window_start, fragment_channels,
               command_channel, command_closed, command, sent>>
taskVars == <<chans, tasks>>
gatewayVars == <<neighbors, channels, arg, result, try_sent, calls, topology_ops,
                 nack_arg, topology_arg>>
vars == <<schedVars, taskVars, gatewayVars>>

Min(a, b) == IF a < b THEN a ELSE b

(* ------------------------------ Command ------------------------------- *)
Confirmed == [kind |-> "Confirmed", idx |-> 0]
Resend(i) == [kind |-> "Resend", idx |-> i]
\* Option<Command>::None, as returned by recv() on a closed, empty channel
NoCommand == [kind |-> "None", idx |-> 0]
Commands == {Confirmed} \cup {Resend(i) : i \in 0..MaxResendIndex}

(* ------------------------------- Packet ------------------------------- *)
NoNack == [tag |-> "NoNack", node |-> 0]
ErrorInRouting(n) == [tag |-> "ErrorInRouting", node |-> n]
Dropped == [tag |-> "Dropped", node |-> 0]
DestinationIsDrone == [tag |-> "DestinationIsDrone", node |-> 0]
Packet(pt, fi, nt, hi, hs, sid) ==
    [pack_type |-> pt, fragment_index |-> fi, nack_type |-> nt,
     hop_index |-> hi, hops |-> hs, session_id |-> sid]
\* the node that runs the gateway, and the nodes packets are routed through
ServerId == 10
DroneIds == {1, 2}
\* the reasons handed to send_nack_packet_to_receiver
NackTypes == {Dropped, DestinationIsDrone, ErrorInRouting(1)}
\* the i-th outbound fragment of the session (route 10 -> 1 -> 2)
Fragment(i) == Packet("MsgFragment", i, NoNack, 0, <<ServerId, 1, 2>>, 7)

\* the packets handed to Gateway::forward: a data fragment at every position
\* of the route 10 -> 1 -> 2, an acknowledgment at its start and on the
\* one-hop route 10, and a packet whose cursor is already past its route
InputPackets ==
    {Packet("MsgFragment", 1, NoNack, c, <<ServerId, 1, 2>>, 7) : c \in 0..2}
    \cup {Packet("Ack", 1, NoNack, 0, <<ServerId, 1, 2>>, 8),
          Packet("Ack", 1, NoNack, 0, <<ServerId>>, 8),
          Packet("Ack", 1, NoNack, 0, <<>>, 8)}

\* the packets handed to send_nack_packet_to_receiver: one of each variant,
\* each with 1 in its own index field
NackInputs ==
    {Packet("MsgFragment", 1, NoNack, 0, <<ServerId, 1, 2>>, 7),
     Packet("Ack", 1, NoNack, 0, <<ServerId, 1, 2>>, 8),
     Packet("Nack", 1, Dropped, 0, <<2, 1, ServerId>>, 9),
     Packet("FloodRequest", 1, NoNack, 0, <<>>, 9)}

(* ------------------------ crossbeam channels -------------------------- *)
\* crossbeam_channel::bounded(ChanCap): receiver alive, nothing queued
bounded_channel == [queue |-> <<>>, connected |-> TRUE]
\* Sender::try_send: Err(Disconnected) once the receiver is gone, Err(Full)
\* at capacity, else the packet is queued
try_send(ch, packet) ==
    IF ~ch.connected THEN [outcome |-> "Disconnected", ch |-> ch]
    ELSE IF Len(ch.queue) >= ChanCap THEN [outcome |-> "Full", ch |-> ch]
    ELSE [outcome |-> "Ok", ch |-> [ch EXCEPT !.queue = Append(@, packet)]]

(* ------------------------------ Gateway ------------------------------- *)
\* Gateway::receiver_channel: the channel to the local receiving logic
ReceiverChannel == 0
\* Result<(), NackType>, or the panic! that leaves forward without a value
Ok == [tag |-> "Ok", nack_type |-> NoNack]
Err(nack_type) == [tag |-> "Err", nack_type |-> nack_type]
Panic == [tag |-> "Panic", nack_type |-> NoNack]
NoCall == [tag |-> "NoCall", nack_type |-> NoNack]

\* the nack copying the index field of whatever packet it is built from
send_nack_copying_index(chs, packet, nack_type) ==
    LET nack == Packet("Nack", packet.fragment_index,
                       nack_type, 0, <<>>, packet.session_id)
    IN try_send(chs[ReceiverChannel], nack)

\* lines 61-77
send_nack_packet_to_receiver(chs, packet, nack_type) ==
    LET nack == Packet("Nack",
                       IF packet.pack_type = "MsgFragment"
                       THEN packet.fragment_index ELSE 0,
                       nack_type, 0, <<>>, packet.session_id)
    IN try_send(chs[ReceiverChannel], nack)

\* forward moving the cursor on by two
advance_cursor_twice(packet) == [packet EXCEPT !.hop_index = @ + 2]

\* line 23
advance_cursor(packet) == [packet EXCEPT !.hop_index = @ + 1]

\* the neighbor arm reporting a failed try_send as a routing error
forward_to_neighbor_reporting(chs, nb, next_node, packet) ==
    LET attempt == try_send(chs[nb[next_node]], packet)
    IN IF attempt.outcome = "Ok"
       THEN [channels |-> [chs EXCEPT ![nb[next_node]] = attempt.ch],
             result |-> Ok, sent |-> attempt.outcome]
       ELSE LET nack == send_nack_packet_to_receiver(chs, packet,
                                                     ErrorInRouting(next_node))
            IN [channels |-> [chs EXCEPT ![ReceiverChannel] = nack.ch],
                result |-> Err(ErrorInRouting(next_node)), sent |-> attempt.outcome]

\* the neighbor arm putting the packet on every neighbor's channel
forward_to_all_neighbors(chs, nb, next_node, packet) ==
    [channels |-> [c \in DOMAIN chs |->
                      IF \E n \in DOMAIN nb : nb[n] = c
                      THEN try_send(chs[c], packet).ch ELSE chs[c]],
     result |-> Ok, sent |-> try_send(chs[nb[next_node]], packet).outcome]

\* lines 29-32: the next hop is a neighbor
forward_to_neighbor(chs, nb, next_node, packet) ==
    LET attempt == try_send(chs[nb[next_node]], packet)
    IN [channels |-> [chs EXCEPT ![nb[next_node]] = attempt.ch],
        result |-> Ok, sent |-> attempt.outcome]

\* the routing-failure arm returning the error without emitting the nack
routing_failure_silent(chs, next_node, packet) ==
    [channels |-> chs, result |-> Err(ErrorInRouting(next_node)), sent |-> "None"]

\* lines 33-41: the next hop is no neighbor
routing_failure(chs, next_node, packet) ==
    LET nack_type == ErrorInRouting(next_node)
        attempt == send_nack_packet_to_receiver(chs, packet, nack_type)
    IN IF attempt.outcome = "Ok"
       THEN [channels |-> [chs EXCEPT ![ReceiverChannel] = attempt.ch],
             result |-> Err(nack_type), sent |-> attempt.outcome]
       ELSE [channels |-> chs, result |-> Panic, sent |-> attempt.outcome]

\* the local delivery treating a refused packet as ordinary loss
deliver_to_receiver_lossy(chs, packet) ==
    LET attempt == try_send(chs[ReceiverChannel], packet)
    IN [channels |-> [chs EXCEPT ![ReceiverChannel] = attempt.ch],
        result |-> Ok, sent |-> attempt.outcome]

\* lines 44-51: the cursor is past the route, this node is the destination
deliver_to_receiver(chs, packet) ==
    LET attempt == try_send(chs[ReceiverChannel], packet)
    IN IF attempt.outcome = "Ok"
       THEN [channels |-> [chs EXCEPT ![ReceiverChannel] = attempt.ch],
             result |-> Ok, sent |-> attempt.outcome]
       ELSE [channels |-> chs, result |-> Panic, sent |-> attempt.outcome]

\* lines 22-59
forward(chs, nb, packet0) ==
    LET packet == advance_cursor(packet0)
        hop_index == packet.hop_index
    IN IF hop_index < Len(packet.hops)
       THEN LET next_node == packet.hops[hop_index + 1]
            IN IF next_node \in DOMAIN nb
               THEN forward_to_neighbor(chs, nb, next_node, packet)
               ELSE routing_failure(chs, next_node, packet)
       ELSE deliver_to_receiver(chs, packet)

(* --------------------- tokio unbounded channels ----------------------- *)
\* mpsc::unbounded_channel(): both halves alive, nothing queued
unbounded_channel == [rx_open |-> TRUE, tx_open |-> TRUE, queue |-> <<>>]
\* UnboundedSender::send: Err (nothing queued) once the receiving half is gone
UnboundedSend(ch, msg) ==
    IF ch.rx_open THEN [ch EXCEPT !.queue = Append(@, msg)] ELSE ch

(* ------------------------ TransmissionHandler ------------------------- *)
\* <[T]>::get(lo..hi): None when lo > hi or hi > len, else the sub-slice,
\* kept here as the absolute positions lo .. hi-1 of its elements
SliceGet(len, lo, hi) ==
    IF lo > hi \/ hi > len
    THEN [some |-> FALSE, items |-> <<>>]
    ELSE [some |-> TRUE, items |-> [j \in 1..(hi - lo) |-> lo + j - 1]]

\* line 49: the admissible slice of `packets`
WindowSlice(len, start, size) == SliceGet(len, start, Min(len, start + size))

\* spawn_task is an `async fn`: calling it only builds a future that owns its
\* arguments (id, the closure over `packet`, the receiving half rx). The body
\* (lines 118-145, tokio::spawn) runs when that future is polled. `forwards`
\* counts the calls of the closure (task_fn, line 126).
spawn_task(id, packet) ==
    [id |-> id, packet |-> packet, state |-> "created", forwards |-> 0]

\* lines 59-62: the future is bound to `handle` and never awaited; it goes out
\* of scope at the end of the match arm, unpolled, and rx is dropped with it
DropUnpolled(future) == [future EXCEPT !.state = "dropped"]

\* the admission loop without the registry lookup of lines 53-55
RECURSIVE AdmitFromAlways(_, _, _)
AdmitFromAlways(j, items, st) ==
    IF j >= Len(items) THEN st
    ELSE LET tx == Cardinality(DOMAIN st.ch)
             handle == spawn_task(j, items[j + 1])
         IN AdmitFromAlways(j + 1, items,
                [fc |-> (j :> tx) @@ st.fc,
                 ch |-> st.ch @@ (tx :> [unbounded_channel EXCEPT !.rx_open = FALSE]),
                 tk |-> st.tk @@ (tx :> DropUnpolled(handle))])

\* lines 51-64: the loop over ready_to_send.iter().enumerate(); position j of
\* the slice is looked up and registered under the key j
RECURSIVE AdmitFrom(_, _, _)
AdmitFrom(j, items, st) ==
    IF j >= Len(items) THEN st
    ELSE IF j \in DOMAIN st.fc THEN AdmitFrom(j + 1, items, st)
    ELSE LET tx == Cardinality(DOMAIN st.ch)
             handle == spawn_task(j, items[j + 1])
         IN AdmitFrom(j + 1, items,
                [fc |-> st.fc @@ (j :> tx),
                 ch |-> st.ch @@ (tx :> [unbounded_channel EXCEPT !.rx_open = FALSE]),
                 tk |-> st.tk @@ (tx :> DropUnpolled(handle))])

\* on_ack_received skipping a fragment
on_ack_received_skip(previous_start) == previous_start + 2

\* lines 41-44
on_ack_received(previous_start) == previous_start + 1

\* lines 48-64 and 103-105: one pass from the loop head to the select!, or out
Admit ==
    /\ pc = "admit"
    /\ LET slice == WindowSlice(Len(packets), window_start, window_size)
           st == AdmitFrom(0, slice.items,
                           [fc |-> fragment_channels, ch |-> chans, tk |-> tasks])
       IN IF slice.some
          THEN /\ fragment_channels' = st.fc
               /\ chans' = st.ch
               /\ tasks' = st.tk
               /\ pc' = "select"
          ELSE /\ pc' = "done"
               /\ UNCHANGED <<fragment_channels, chans, tasks>>
    /\ UNCHANGED <<packets, window_size, window_start, command_channel,
                   command_closed, command, sent, gatewayVars>>

\* lines 66-72: recv() yields Some(Confirmed)
RecvConfirmed ==
    /\ pc = "select"
    /\ command_channel # <<>>
    /\ Head(command_channel) = Confirmed
    /\ command' = Head(command_channel)
    /\ command_channel' = Tail(command_channel)
    /\ window_start' = on_ack_received(window_start)
    /\ pc' = "admit"
    /\ UNCHANGED <<packets, window_size, fragment_channels, command_closed,
                   sent, taskVars, gatewayVars>>

\* RecvResend with a miss handled like an acknowledgment
RecvResendMissAdvances ==
    /\ pc = "select"
    /\ command_channel # <<>>
    /\ Head(command_channel).kind = "Resend"
    /\ command' = Head(command_channel)
    /\ command_channel' = Tail(command_channel)
    /\ LET fragment_index == Head(command_channel).idx
       IN IF fragment_index \in DOMAIN fragment_channels
          THEN /\ chans' = [chans EXCEPT ![fragment_channels[fragment_index]] =
                                UnboundedSend(@, Resend(fragment_index))]
               /\ window_start' = window_start
          ELSE /\ chans' = chans
               /\ window_start' = on_ack_received(window_start)
    /\ pc' = "admit"
    /\ UNCHANGED <<packets, window_size, fragment_channels,
                   command_closed, sent, tasks, gatewayVars>>

\* lines 66-68, 73-78: recv() yields Some(Resend(fragment_index))
RecvResend ==
    /\ pc = "select"
    /\ command_channel # <<>>
    /\ Head(command_channel).kind = "Resend"
    /\ command' = Head(command_channel)
    /\ command_channel' = Tail(command_channel)
    /\ LET fragment_index == Head(command_channel).idx
       IN IF fragment_index \in DOMAIN fragment_channels
          THEN chans' = [chans EXCEPT ![fragment_channels[fragment_index]] =
                             UnboundedSend(@, Resend(fragment_index))]
          ELSE chans' = chans
    /\ pc' = "admit"
    /\ UNCHANGED <<packets, window_size, window_start, fragment_channels,
                   command_closed, sent, tasks, gatewayVars>>

\* a closed command channel ending the loop
RecvNoneBreaks ==
    /\ pc = "select"
    /\ command_channel = <<>>
    /\ command_closed
    /\ command' = NoCommand
    /\ pc' = "done"
    /\ UNCHANGED <<packets, window_size, window_start, fragment_channels,
                   command_channel, command_closed, sent, taskVars, gatewayVars>>

\* lines 66-68, 80: recv() yields None (channel closed and drained); the
\* `if let Some` does nothing and the loop goes round
RecvNone ==
    /\ pc = "select"
    /\ command_channel = <<>>
    /\ command_closed
    /\ command' = NoCommand
    /\ pc' = "admit"
    /\ UNCHANGED <<packets, window_size, window_start, fragment_channels,
                   command_channel, command_closed, sent, taskVars, gatewayVars>>

\* the holders of the command channel's sending half
SendCommand ==
    /\ ~command_closed
    /\ sent < MaxCommands
    /\ \E c \in Commands : command_channel' = Append(command_channel, c)
    /\ sent' = sent + 1
    /\ UNCHANGED <<pc, packets, window_size, window_start, fragment_channels,
                   command_closed, command, taskVars, gatewayVars>>

CloseCommandChannel ==
    /\ ~command_closed
    /\ command_closed' = TRUE
    /\ UNCHANGED <<pc, packets, window_size, window_start, fragment_channels,
                   command_channel, command, sent, taskVars, gatewayVars>>

\* TransmissionHandler::new (lines 28-39) over a slice of 0..MaxPackets
\* fragments, next to a gateway nobody calls yet
Init ==
    /\ pc = "admit"
    /\ \E n \in 0..MaxPackets : packets = [i \in 1..n |-> Fragment(i - 1)]
    /\ window_size = 1
    /\ window_start = 0
    /\ fragment_channels = <<>>
    /\ command_channel = <<>>
    /\ command_closed = FALSE
    /\ command = NoCommand
    /\ sent = 0
    /\ chans = <<>>
    /\ tasks = <<>>
    /\ neighbors = <<>>
    /\ channels = <<>>
    /\ arg = Fragment(0)
    /\ result = NoCall
    /\ try_sent = "None"
    /\ calls = 0
    /\ topology_ops = 0
    /\ nack_arg = NoNack
    /\ topology_arg = [op |-> "none", node_id |-> 0]

(* ---------------- the gateway and the holders of its channels ---------- *)
\* a caller hands a packet to Gateway::forward
Forward ==
    /\ calls < MaxCalls
    /\ \E packet \in InputPackets :
         LET out == forward(channels, neighbors, packet)
         IN /\ arg' = packet
            /\ channels' = out.channels
            /\ result' = out.result
            /\ try_sent' = out.sent
            /\ LET p == advance_cursor(packet)
               IN nack_arg' = IF /\ p.hop_index < Len(p.hops)
                                 /\ p.hops[p.hop_index + 1] \notin DOMAIN neighbors
                              THEN ErrorInRouting(p.hops[p.hop_index + 1])
                              ELSE nack_arg
    /\ calls' = calls + 1
    /\ UNCHANGED <<neighbors, topology_ops, topology_arg, schedVars, taskVars>>

\* lines 61-77 called on their own, as the test of lines 159-188 does
SendNack ==
    /\ \E packet \in NackInputs, nack_type \in NackTypes :
         LET attempt == send_nack_packet_to_receiver(channels, packet, nack_type)
         IN /\ arg' = packet
            /\ nack_arg' = nack_type
            /\ channels' = [channels EXCEPT ![ReceiverChannel] = attempt.ch]
            /\ try_sent' = attempt.outcome
    /\ UNCHANGED <<neighbors, result, calls, topology_ops, topology_arg,
                   schedVars, taskVars>>

\* remove_neighbor leaving the table as it is
remove_neighbor_noop(nb, node_id) == nb

\* line 84: HashMap::remove
remove_neighbor(nb, node_id) == [n \in DOMAIN nb \ {node_id} |-> nb[n]]

\* line 80: HashMap::insert
add_neighbor(nb, node_id, channel) == (node_id :> channel) @@ nb

\* lines 79-81, with the sending half of a new channel
AddNeighbor ==
    /\ topology_ops < MaxTopologyOps
    /\ \E node_id \in DroneIds :
         LET channel == Cardinality(DOMAIN channels)
         IN /\ neighbors' = add_neighbor(neighbors, node_id, channel)
            /\ channels' = channels @@ (channel :> bounded_channel)
            /\ topology_arg' = [op |-> "add", node_id |-> node_id]
    /\ topology_ops' = topology_ops + 1
    /\ UNCHANGED <<arg, result, try_sent, calls, nack_arg, schedVars, taskVars>>

\* lines 83-85
RemoveNeighbor ==
    /\ topology_ops < MaxTopologyOps
    /\ \E node_id \in DroneIds :
         /\ neighbors' = remove_neighbor(neighbors, node_id)
         /\ topology_arg' = [op |-> "remove", node_id |-> node_id]
    /\ topology_ops' = topology_ops + 1
    /\ UNCHANGED <<channels, arg, result, try_sent, calls, nack_arg,
                   schedVars, taskVars>>

\* the holder of a channel's receiving half takes a packet off it
ChannelRecv ==
    /\ \E c \in DOMAIN channels :
         /\ channels[c].connected
         /\ channels[c].queue # <<>>
         /\ channels' = [channels EXCEPT ![c].queue = Tail(@)]
    /\ UNCHANGED <<neighbors, arg, result, try_sent, calls, topology_ops,
                   nack_arg, topology_arg, schedVars, taskVars>>

\* the holder of a channel's receiving half drops it
ChannelDisconnect ==
    /\ \E c \in DOMAIN channels :
         /\ channels[c].connected
         /\ channels' = [channels EXCEPT ![c].connected = FALSE]
    /\ UNCHANGED <<neighbors, arg, result, try_sent, calls, topology_ops,
                   nack_arg, topology_arg, schedVars, taskVars>>

\* Gateway::new (lines 14-20) with a neighbor table over some of the drones,
\* next to a scheduler that has nothing to send
GatewayInit ==
    /\ pc = "admit"
    /\ packets = <<>>
    /\ window_size = 1
    /\ window_start = 0
    /\ fragment_channels = <<>>
    /\ command_channel = <<>>
    /\ command_closed = FALSE
    /\ command = NoCommand
    /\ sent = 0
    /\ chans = <<>>
    /\ tasks = <<>>
    /\ \E known \in SUBSET DroneIds : neighbors = [n \in known |-> n]
    /\ channels = [c \in {ReceiverChannel} \cup DroneIds |-> bounded_channel]
    /\ arg = Fragment(0)
    /\ result = NoCall
    /\ try_sent = "None"
    /\ calls = 0
    /\ topology_ops = 0
    /\ nack_arg = NoNack
    /\ topology_arg = [op |-> "none", node_id |-> 0]

GatewayNext ==
    \/ ChannelDisconnect
    \/ ChannelRecv
    \/ AddNeighbor
    \/ RemoveNeighbor
    \/ Forward

GatewaySpec == GatewayInit /\ [][GatewayNext]_vars

\* the gateway's nack synthesis called directly
NackNext ==
    \/ ChannelDisconnect
    \/ ChannelRecv
    \/ SendNack

NackSpec == GatewayInit /\ [][NackNext]_vars

(* ------------- a retry task whose future has been polled -------------- *)
\* lines 118-119: the future is awaited, tokio::spawn starts the body, which
\* is about to call task_fn
Poll(future) == [future EXCEPT !.state = "call"]

\* the closure forwarding the stored packet itself, cursor advance included
task_fn_in_place(chs, nb, pkts, i) ==
    [out |-> forward(chs, nb, pkts[i + 1]),
     packets |-> [pkts EXCEPT ![i + 1] = advance_cursor(@)]]

\* lines 59-61: the closure hands the gateway a clone of the stored packet
task_fn(chs, nb, pkts, i) ==
    [out |-> forward(chs, nb, pkts[i + 1]), packets |-> pkts]

\* tokio::select! over lines 121-141: a branch whose pattern does not match
\* the completed future's output is disabled; `else` runs when every branch
\* is disabled. sleep's `_` matches always; recv()'s `Some(command)` fails
\* to match on None, which recv() yields once the channel is closed and empty.
SelectDisabled(ch) ==
    IF ch.queue = <<>> /\ ~ch.tx_open THEN {"recv"} ELSE {}
SelectArms(ch) ==
    IF SelectDisabled(ch) = {"sleep", "recv"} THEN {"else"}
    ELSE ({"sleep"} \cup (IF ch.queue # <<>> THEN {"recv"} ELSE {}))
             \ SelectDisabled(ch)

\* line 120: task_fn(); a panic in Gateway::forward ends the task
TaskCall ==
    /\ calls < MaxCalls
    /\ \E c \in DOMAIN tasks :
         /\ tasks[c].state = "call"
         /\ LET run == task_fn(channels, neighbors, packets, tasks[c].packet)
                p == advance_cursor(packets[tasks[c].packet + 1])
            IN /\ arg' = packets[tasks[c].packet + 1]
               /\ packets' = run.packets
               /\ channels' = run.out.channels
               /\ result' = run.out.result
               /\ try_sent' = run.out.sent
               /\ nack_arg' = IF /\ p.hop_index < Len(p.hops)
                                 /\ p.hops[p.hop_index + 1] \notin DOMAIN neighbors
                              THEN ErrorInRouting(p.hops[p.hop_index + 1])
                              ELSE nack_arg
               /\ tasks' = [tasks EXCEPT
                              ![c].forwards = @ + 1,
                              ![c].state = IF run.out.result = Panic
                                           THEN "panicked" ELSE "select"]
               /\ chans' = [chans EXCEPT ![c].rx_open = run.out.result # Panic]
    /\ calls' = calls + 1
    /\ UNCHANGED <<pc, window_size, window_start, fragment_channels,
                   command_channel, command_closed, command, sent,
                   neighbors, topology_ops, topology_arg>>

\* lines 121-141: the select! and its arms; break drops rx with the task
TaskSelect ==
    /\ \E c \in DOMAIN tasks :
         /\ tasks[c].state = "select"
         /\ \E arm \in SelectArms(chans[c]) :
              LET exits == \/ arm = "else"
                           \/ arm = "recv" /\ Head(chans[c].queue) = Confirmed
              IN /\ tasks' = [tasks EXCEPT ![c].state =
                                 IF exits THEN "finished" ELSE "call"]
                 /\ chans' = [chans EXCEPT
                                 ![c].queue = IF arm = "recv" THEN Tail(@) ELSE @,
                                 ![c].rx_open = ~exits]
    /\ UNCHANGED <<schedVars, gatewayVars>>

\* the holder of the task's sender sends it a command
TaskSend ==
    /\ sent < MaxCommands
    /\ \E k \in DOMAIN fragment_channels : \E cmd \in {Confirmed, Resend(k)} :
         /\ chans[fragment_channels[k]].tx_open
         /\ chans' = [chans EXCEPT ![fragment_channels[k]] = UnboundedSend(@, cmd)]
    /\ sent' = sent + 1
    /\ UNCHANGED <<pc, packets, window_size, window_start, fragment_channels,
                   command_channel, command_closed, command, tasks, gatewayVars>>

\* the holder of the task's sender drops it
TaskDropSender ==
    /\ \E c \in DOMAIN chans :
         /\ chans[c].tx_open
         /\ chans' = [chans EXCEPT ![c].tx_open = FALSE]
    /\ UNCHANGED <<schedVars, tasks, gatewayVars>>

\* lines 57-61 with the spawn_task future awaited: fragment 0 of a one-packet
\* sequence is registered and its task started, on a gateway as in GatewayInit
TaskInit ==
    /\ pc = "select"
    /\ packets = <<Fragment(0)>>
    /\ window_size = 1
    /\ window_start = 0
    /\ fragment_channels = (0 :> 0)
    /\ command_channel = <<>>
    /\ command_closed = FALSE
    /\ command = NoCommand
    /\ sent = 0
    /\ chans = (0 :> unbounded_channel)
    /\ tasks = (0 :> Poll(spawn_task(0, 0)))
    /\ \E known \in SUBSET DroneIds : neighbors = [n \in known |-> n]
    /\ channels = [c \in {ReceiverChannel} \cup DroneIds |-> bounded_channel]
    /\ arg = Fragment(0)
    /\ result = NoCall
    /\ try_sent = "None"
    /\ calls = 0
    /\ topology_ops = 0
    /\ nack_arg = NoNack
    /\ topology_arg = [op |-> "none", node_id |-> 0]

TaskNext ==
    \/ TaskCall
    \/ TaskSelect
    \/ TaskSend
    \/ TaskDropSender
    \/ ChannelRecv
    \/ ChannelDisconnect

TaskSpec == TaskInit /\ [][TaskNext]_vars

Next ==
    \/ Admit
    \/ RecvConfirmed
    \/ RecvResend
    \/ RecvNone
    \/ SendCommand
    \/ CloseCommandChannel

Spec == Init /\ [][Next]_vars

(* ------------------- claims about the scheduler ----------------------- *)
\* The retry tasks the scheduler has started (spawn_task was called for them)
\* and not retired. A task leaves its loop only on a Confirmed message or on
\* its control channel closing (lines 132-141), so the scheduler retires a
\* task by sending it Confirmed or by dropping its registered sender.
Registered(c) == \E k \in DOMAIN fragment_channels : fragment_channels[k] = c
UnretiredTasks ==
    {c \in DOMAIN tasks : Registered(c) /\ \A m \in 1..Len(chans[c].queue) :
                                               chans[c].queue[m] # Confirmed}

\* the step of run() that takes a command off the command channel
Received(c) ==
    /\ pc = "select"
    /\ command_channel # <<>>
    /\ Head(command_channel) = c
    /\ command_channel' = Tail(command_channel)

C2_WindowAdmission ==
    pc = "select" =>
        \A i \in window_start..(Min(Len(packets), window_start + window_size) - 1) :
            \E c \in DOMAIN tasks : tasks[c].packet = i /\ Registered(c)

C4_ExitsAfterLastAck ==
    (Len(packets) > 0 /\ window_start = Len(packets)) => pc # "select"

\* C5 - immediate resend: a Resend(i) processed while fragment i has a
\* registered task is delivered on that task's control channel (where it makes
\* the task forward the fragment again at once).
C5_ResendRouted ==
    (pc = "admit" /\ command.kind = "Resend"
                  /\ command.idx \in DOMAIN fragment_channels) =>
        LET queue == chans[fragment_channels[command.idx]].queue
        IN queue # <<>> /\ queue[Len(queue)] = command

\* C6 - each processed Confirmed command increases windowStart by exactly 1.
C6_ConfirmedAdvancesByOne ==
    [][Received(Confirmed) => window_start' = window_start + 1]_vars

\* a second Confirmed has been processed
C6_Witness ==
    pc = "admit" /\ command = Confirmed /\ window_start = 2

\* C7 - a Resend(index) whose index has no registered task has no effect:
\* neither processing it nor the admission step that follows it changes
\* windowStart, the registry, the tasks, their channels or the gateway.
ResendMiss(c) == c.kind = "Resend" /\ c.idx \notin DOMAIN fragment_channels
C7_ResendMissNoEffect ==
    [][((\E c \in Commands : ResendMiss(c) /\ Received(c))
          \/ (pc = "admit" /\ ResendMiss(command) /\ pc' # pc))
       => UNCHANGED <<window_start, fragment_channels, tasks, chans, gatewayVars>>]_vars

\* a Resend for an unregistered index has been processed, and the admission
\* step after it has run, with a task registered for another index
C7_Witness ==
    /\ pc = "select"
    /\ ResendMiss(command)
    /\ fragment_channels # <<>>

(* --------------------- claims about the gateway ----------------------- *)
\* the step in which forward is called; arg' is the packet handed in
ForwardCalled == calls' = calls + 1
\* the packet's route has a position c+1, and the node there
NextHopExists(p) == p.hop_index + 1 < Len(p.hops)
NextHop(p) == p.hops[p.hop_index + 2]
\* a channel that is connected and not full
Accepts(ch) == ch.connected /\ Len(ch.queue) < ChanCap
\* channel c gets exactly the packet p appended in this step
Enqueued(c, p) == channels'[c] = [channels[c] EXCEPT !.queue = Append(@, p)]
\* the local-receiving channel gets exactly one nack with this reason appended
NackEnqueued(reason) ==
    LET before == channels[ReceiverChannel].queue
        after == channels'[ReceiverChannel].queue
    IN /\ Len(after) = Len(before) + 1
       /\ SubSeq(after, 1, Len(before)) = before
       /\ after[Len(after)].pack_type = "Nack"
       /\ after[Len(after)].nack_type = reason
NeighborChannelsUnchanged ==
    \A c \in DOMAIN channels \ {ReceiverChannel} : channels'[c] = channels[c]

\* C8 (as claimed) - routing failure: for every packet whose next hop
\* route[c+1] exists but is no key of the neighbor table, forward places
\* nothing on any neighbor channel, returns Err(RoutingError(route[c+1])) and
\* enqueues exactly one nack with that reason on the local-receiving channel.
C8_RoutingFailure ==
    [][(ForwardCalled /\ NextHopExists(arg') /\ NextHop(arg') \notin DOMAIN neighbors)
       => /\ NeighborChannelsUnchanged
          /\ result' = Err(ErrorInRouting(NextHop(arg')))
          /\ NackEnqueued(ErrorInRouting(NextHop(arg')))]_vars

\* C8 (amended) - as above while the local-receiving channel accepts a
\* packet; when it is full or disconnected the call panics instead, returns
\* nothing and enqueues nothing.
C8_RoutingFailureAmended ==
    [][(ForwardCalled /\ NextHopExists(arg') /\ NextHop(arg') \notin DOMAIN neighbors)
       => /\ NeighborChannelsUnchanged
          /\ IF Accepts(channels[ReceiverChannel])
             THEN /\ result' = Err(ErrorInRouting(NextHop(arg')))
                  /\ NackEnqueued(ErrorInRouting(NextHop(arg')))
             ELSE /\ result' = Panic
                  /\ channels' = channels]_vars

\* a fragment routed to the unknown neighbor 1 was refused and its nack sits
\* on the local-receiving channel
C8_Witness ==
    /\ arg = Packet("MsgFragment", 1, NoNack, 0, <<ServerId, 1, 2>>, 7)
    /\ result = Err(ErrorInRouting(1))
    /\ Len(channels[ReceiverChannel].queue) = 1
    /\ channels[ReceiverChannel].queue[1].pack_type = "Nack"
    /\ channels[ReceiverChannel].queue[1].nack_type = ErrorInRouting(1)
    /\ \A c \in DOMAIN channels \ {ReceiverChannel} : channels[c].queue = <<>>

\* what forward puts on a neighbor channel for a packet whose next hop is a
\* known neighbor: the packet with cursor c+1 and nothing else changed, on the
\* channel of route[c+1], whenever that channel accepts it
ForwardedToNextHop(p) ==
    LET moved == [p EXCEPT !.hop_index = p.hop_index + 1]
        ch == neighbors[NextHop(p)]
    IN /\ Accepts(channels[ch]) => Enqueued(ch, moved)
       /\ \A c \in DOMAIN channels \ {ReceiverChannel} :
              channels'[c] # channels[c] => c = ch /\ Enqueued(ch, moved)

\* C9 (as claimed) - for every packet with a route of length L and cursor
\* c < L, forward advances the cursor to c+1; if c+1 = L the packet is
\* delivered to the local receiving channel and the call returns success;
\* otherwise the next hop is route[c+1], and when it is a known neighbor the
\* packet on that neighbor's channel has cursor c+1 and the same session id,
\* payload and route.
C9_Forward ==
    [][(ForwardCalled /\ arg'.hop_index < Len(arg'.hops))
       => IF ~NextHopExists(arg')
          THEN /\ Enqueued(ReceiverChannel, [arg' EXCEPT !.hop_index = @ + 1])
               /\ result' = Ok
          ELSE NextHop(arg') \in DOMAIN neighbors => ForwardedToNextHop(arg')]_vars

\* C9 (amended) - as above, except that the local delivery for c+1 = L
\* succeeds only while the local receiving channel accepts a packet; when it
\* is full or disconnected the call panics and delivers nothing.
C9_ForwardAmended ==
    [][(ForwardCalled /\ arg'.hop_index < Len(arg'.hops))
       => IF ~NextHopExists(arg')
          THEN IF Accepts(channels[ReceiverChannel])
               THEN /\ Enqueued(ReceiverChannel, [arg' EXCEPT !.hop_index = @ + 1])
                    /\ result' = Ok
               ELSE /\ result' = Panic
                    /\ channels' = channels
          ELSE NextHop(arg') \in DOMAIN neighbors => ForwardedToNextHop(arg')]_vars

\* a fragment at cursor 0 went to neighbor 1 with cursor 1, then an
\* acknowledgment on the one-hop route was delivered locally with cursor 1
C9_Witness ==
    /\ calls = 2
    /\ 1 \in DOMAIN neighbors
    /\ channels[neighbors[1]].queue =
           <<Packet("MsgFragment", 1, NoNack, 1, <<ServerId, 1, 2>>, 7)>>
    /\ arg = Packet("Ack", 1, NoNack, 0, <<ServerId>>, 8)
    /\ channels[ReceiverChannel].queue = <<Packet("Ack", 1, NoNack, 1, <<ServerId>>, 8)>>
    /\ result = Ok

\* C10 - silent loss: when the next hop is a known neighbor whose channel is
\* full or disconnected, forward returns success, enqueues nothing (no nack
\* on the local-receiving channel either) and does not panic.
C10_SilentLoss ==
    [][(/\ ForwardCalled
        /\ NextHopExists(arg')
        /\ NextHop(arg') \in DOMAIN neighbors
        /\ ~Accepts(channels[neighbors[NextHop(arg')]]))
       => result' = Ok /\ channels' = channels]_vars

\* forward returned success although the neighbor's channel was full
C10_Witness ==
    /\ NextHopExists(arg)
    /\ try_sent = "Full"
    /\ result = Ok
    /\ channels[ReceiverChannel].queue = <<>>

\* C11 - fatal local delivery: whenever forward must deliver to the local
\* receiving channel (the cursor moved past the end of the route, or a nack
\* was synthesized for an unknown next hop) and that channel cannot accept the
\* packet, the call panics: it returns neither Ok nor Err and loses nothing
\* silently.
C11_FatalLocalDelivery ==
    [][(/\ ForwardCalled
        /\ ~NextHopExists(arg') \/ NextHop(arg') \notin DOMAIN neighbors
        /\ ~Accepts(channels[ReceiverChannel]))
       => result' = Panic /\ channels' = channels]_vars

\* a packet at the end of its route met a disconnected local channel
C11_Witness ==
    /\ ~NextHopExists(arg)
    /\ try_sent = "Disconnected"
    /\ ~channels[ReceiverChannel].connected
    /\ result = Panic

\* the packets queued on the neighbor channels, and on the local channel
RECURSIVE QueuedOn(_)
QueuedOn(cs) ==
    IF cs = {} THEN 0
    ELSE LET c == CHOOSE x \in cs : TRUE
         IN Len(channels[c].queue) + QueuedOn(cs \ {c})
NeighborChannels == DOMAIN channels \ {ReceiverChannel}

RunningTasks == {c \in DOMAIN tasks : tasks[c].state \in {"call", "select"}}
\* the tasks ever started for the fragment at position i of `packets`
StartedFor(i) == {c \in DOMAIN tasks : tasks[c].packet = i}

\* C16 - retry loop: a fragment admitted to the window is passed to
\* Gateway::forward at least once right after its task is started (and again
\* after every timeout until Confirmed or a channel close): no task started
\* by the admission step is gone without having forwarded its fragment.
C16_AdmittedForwarded ==
    \A c \in DOMAIN tasks :
        tasks[c].state \in {"dropped", "finished"} => tasks[c].forwards >= 1

\* C17 - registry lifecycle: in every reachable state the registry's key set
\* equals the set of fragment indices with an active retry task.
C17_RegistryLifecycle ==
    pc = "select" =>
        DOMAIN fragment_channels = {tasks[c].id : c \in RunningTasks}

\* C18 - each fragment has at most one active retry task: across any number
\* of loop iterations and commands the admission step starts no second task
\* for a fragment that already has one.
C18_OneTaskPerFragment ==
    \A i \in 0..(Len(packets) - 1) : Cardinality(StartedFor(i)) <= 1

\* the admission step has run again, after a Resend for fragment 0 whose task
\* was registered, and fragment 0 has the single task it had
C18_Witness ==
    /\ pc = "select"
    /\ command = Resend(0)
    /\ 0 \in DOMAIN fragment_channels
    /\ Cardinality(StartedFor(0)) = 1

\* C19 - no early exit: the run loop never exits while windowStart is below
\* the sequence length, whatever commands arrive and even after the command
\* channel has been closed by its senders.
C19_NoEarlyExit ==
    pc = "done" => window_start >= Len(packets)

\* the command channel is closed and drained, recv() has yielded None after a
\* first Confirmed, and the loop is waiting again with two fragments left
C19_Witness ==
    /\ pc = "select"
    /\ command_closed
    /\ command_channel = <<>>
    /\ command = NoCommand
    /\ window_start = 1
    /\ Len(packets) = 3

\* this step appends a nack to the local-receiving channel
NackSynthesized ==
    LET before == channels[ReceiverChannel].queue
        after == channels'[ReceiverChannel].queue
    IN /\ Len(after) = Len(before) + 1
       /\ after[Len(after)].pack_type = "Nack"
SynthesizedNack ==
    channels'[ReceiverChannel].queue[Len(channels'[ReceiverChannel].queue)]

\* C12 - a nack synthesized by the Gateway from a data-fragment packet carries
\* that fragment's index; synthesized from any other packet variant it
\* carries fragment index 0; in both cases it carries exactly the reason it
\* was asked to carry.
C12_NackContents ==
    [][NackSynthesized =>
         /\ arg'.pack_type = "MsgFragment"
                => SynthesizedNack.fragment_index = arg'.fragment_index
         /\ arg'.pack_type # "MsgFragment"
                => SynthesizedNack.fragment_index = 0
         /\ SynthesizedNack.nack_type = nack_arg']_vars

\* a nack with reason Dropped was built from an acknowledgment whose own
\* index is 1, and is queued with index 0
C12_Witness ==
    /\ arg.pack_type = "Ack"
    /\ arg.fragment_index = 1
    /\ nack_arg = Dropped
    /\ try_sent = "Ok"
    /\ channels[ReceiverChannel].queue = <<Packet("Nack", 0, Dropped, 0, <<>>, 8)>>

\* the steps that are add_neighbor(n, _) and remove_neighbor(n) calls
AddCalled(n) ==
    /\ topology_ops' = topology_ops + 1
    /\ topology_arg' = [op |-> "add", node_id |-> n]
RemoveCalled(n) ==
    /\ topology_ops' = topology_ops + 1
    /\ topology_arg' = [op |-> "remove", node_id |-> n]
Count(nb) == Cardinality(DOMAIN nb)

\* C13 - neighbor-table mutations: adding a present identifier replaces its
\* channel and leaves the count unchanged; adding a new one increases the
\* count by one; removing a present one decreases it by one; removing an
\* absent one leaves the table unchanged; so the table holds exactly the
\* identifiers added and not subsequently removed.
C13_NeighborTable ==
    [][\A n \in DroneIds :
         /\ AddCalled(n) =>
              /\ n \in DOMAIN neighbors => Count(neighbors') = Count(neighbors)
              /\ n \notin DOMAIN neighbors => Count(neighbors') = Count(neighbors) + 1
              /\ DOMAIN neighbors' = DOMAIN neighbors \cup {n}
              /\ neighbors'[n] \notin DOMAIN channels
              /\ \A m \in DOMAIN neighbors \ {n} : neighbors'[m] = neighbors[m]
         /\ RemoveCalled(n) =>
              /\ n \in DOMAIN neighbors => Count(neighbors') = Count(neighbors) - 1
              /\ n \notin DOMAIN neighbors => neighbors' = neighbors
              /\ DOMAIN neighbors' = DOMAIN neighbors \ {n}
              /\ \A m \in DOMAIN neighbors' : neighbors'[m] = neighbors[m]]_vars

\* drone 1, known from the start, has been removed and drone 2 is still there
C13_Witness ==
    /\ topology_arg = [op |-> "remove", node_id |-> 1]
    /\ DOMAIN neighbors = {2}

(* ----------------------- claims about a retry task --------------------- *)
\* C15 - cancellation by channel close: once the sending end of a task's
\* control channel is dropped without a Confirmed having been sent, the task
\* terminates instead of continuing to retransmit on timeout: from its select!
\* with the channel closed and empty the task's next step is its exit.
C15_CancelledByClose ==
    [][\A c \in DOMAIN tasks :
         (/\ tasks[c].state = "select"
          /\ ~chans[c].tx_open
          /\ chans[c].queue = <<>>
          /\ tasks'[c] # tasks[c])
         => tasks'[c].state = "finished"]_vars

\* C20 - retransmissions are identical: forwarding never modifies the stored
\* fragment sequence, so every transmission and retransmission of a fragment
\* hands the Gateway the same packet, with its original cursor; the cursor
\* advance made by Gateway::forward does not accumulate across retries.
C20_RetransmissionsIdentical ==
    [][/\ packets' = packets
       /\ \A c \in DOMAIN tasks :
            tasks'[c].forwards = tasks[c].forwards + 1 =>
                /\ arg' = packets[tasks[c].packet + 1]
                /\ tasks[c].forwards >= 1 => arg' = arg]_vars

\* the fragment has been forwarded twice, the second time after the first
\* copy was taken off drone 1's channel, and the copy queued there is the
\* stored packet with its cursor advanced once
C20_Witness ==
    /\ tasks[0].forwards = 2
    /\ arg = packets[1]
    /\ arg.hop_index = 0
    /\ try_sent = "Ok"
    /\ 1 \in DOMAIN neighbors
    /\ channels[neighbors[1]].queue = <<advance_cursor(packets[1])>>

====
